---- MODULE Spec2Model ----
(***************************************************************************)
(* Model of the sampling-and-acquisition engine of DAW_NYC_data:           *)
(*   libs/calculator.py  calc_sample_size          (AllocationPlanner)     *)
(*   libs/fetcher.py     fetch_random_sample       (WindowSampler)         *)
(*   libs/fetcher.py     fetch_all_samples_from_plan (PlanExecutor)        *)
(*                                                                         *)
(* A table (DataFrame) is a sequence of rows.  The count table is the      *)
(* sequence of its "total" column; the stratum of row i is GroupValue(i).  *)
(* A stratum value is a one-element tuple <<i>>; NoValue, the empty tuple, *)
(* stands for a stratum column the remote response does not carry.         *)
(*                                                                         *)
(* Specifications:                                                         *)
(*   SpecAlloc    calc_sample_size applied to a count table and a target   *)
(*   SpecSampler  one direct call of fetch_random_sample                   *)
(*   Spec         calc_sample_size, then fetch_all_samples_from_plan on    *)
(*                the plan it returned, one loop iteration per step        *)
(*   SpecDays     one call of calc_k_days                                  *)
(*   SpecMonth    fetch_month_strat_data, one day per step                 *)
(*   SpecPacing   a run of either executor                                 *)
(*   SpecInputs   calc_sample_size or calc_k_days on non-positive inputs   *)
(*   SpecWindow   the date predicates of the per-day requests              *)
(*   SpecCount    one call of fetch_count_of_grouping                      *)
(*   SpecRanges   utils.py month_ranges, one loop iteration per step       *)
(***************************************************************************)
EXTENDS Integers, Sequences, FiniteSets

VARIABLES
    counts,       \* data: the "total" column of the count table, in row order
    target,       \* target_sample_size
    pc,           \* position of the run
    plan,         \* df_plan: rows [grp, total, sample_size]
    idx,          \* position of the for loop over df_plan.iterrows()
    all_samples,  \* the accumulator list of fetch_all_samples_from_plan
    calls,        \* history: per loop iteration, what fetch_random_sample was asked and gave
    lastResp,     \* history: the remote's response to the latest request
    log,          \* the "Error with <group>" records printed by the except clause
    sleeps,       \* number of time.sleep(sleep_seconds) calls made
    target_n,     \* the sample_size argument of a direct call of fetch_random_sample
    result,       \* the table the executor returned
    events,       \* history: the requests issued and the sleeps made, in order
    start,        \* start of the date range, as a day number
    end,          \* end of the date range, as a day number
    k_days,       \* k_days
    days,         \* the list calc_k_days returned
    per_day,      \* per_day of fetch_month_strat_data
    parts,        \* the accumulator list of fetch_month_strat_data
    warned,       \* logging.warning("No parts collected ...") was called
    created,      \* created_date of one row the remote holds, as a time of day number
    cur,          \* cur of month_ranges, as an instant
    ranges,       \* ranges of month_ranges: pairs of formatted instants
    columns,      \* the column names of the count table passed to calc_sample_size
    windows       \* history: the per-day date predicates sent and whether each selected that row

dayVars == <<start, end, k_days, days, per_day, parts, warned>>

planVars == <<counts, plan, all_samples, target_n, columns>>

winVars == <<created, windows>>

rangeVars == <<cur, ranges>>

vars == <<counts, target, pc, plan, idx, all_samples, calls, lastResp, log, sleeps,
          target_n, result, events, columns, dayVars, winVars, rangeVars>>

(***************************** bounds **************************************)
\* allocation specification (SpecAlloc)
MaxStrata == 4
MaxTotal == 3
MaxTarget == 5
\* executor specification (Spec)
ExecStrata == 3
ExecTotal == 1
ExecTarget == 3
MaxRows == 2
\* sampler specification (SpecSampler)
SamplerRows == 4
SamplerN == 3

\* day chooser specification (SpecDays): dates are day numbers 1..MaxDate
MaxDate == 10
MaxK == 5
\* day-stratified executor specification (SpecMonth): dates are 0..MonthMaxDate
MonthMaxDate == 2
MonthMaxK == 2
MonthTarget == 2
DayRows == 2

\* count query specification (SpecCount)
CountStrata == 3
CountTotal == 3

\* month window specification (SpecRanges): dates are day numbers 0..RangeMaxDay
RangeMaxDay == 95

\* date predicate specification (SpecWindow): days 0..WindowMaxDate, at most
\* WindowMaxQueries per-day requests, TicksPerDay instants per day
WindowMaxDate == 3
WindowMaxQueries == 2
TicksPerDay == 2

\* the keys of the rows the remote holds for the days of the range
RowKeys == {1, 2}

\* the totals and targets of the worked examples of the planner
ExampleTotals == {10, 20, 30}
ExampleTargets == {6, 10}

(***************************** helpers *************************************)
RECURSIVE SumSeq(_)
SumSeq(s) == IF s = <<>> THEN 0 ELSE s[1] + SumSeq(Tail(s))

RECURSIVE Concat(_)
Concat(ss) == IF ss = <<>> THEN <<>> ELSE ss[1] \o Concat(Tail(ss))

Min(a, b) == IF a < b THEN a ELSE b

GroupValue(i) == <<i>>
NoValue == <<>>

\* the value g in another spelling (another letter case): not equal to g
Respelled(g) == g \o g

\* How the remote's data spells stratum value g: the even strata are stored in
\* another spelling than the one the plan uses, the odd ones as the plan has them.
RemoteSpelling(g) == IF g # NoValue /\ g[1] % 2 = 0 THEN Respelled(g) ELSE g

Tables(maxLen, vals) == UNION {[1..n -> vals] : n \in 0..maxLen}

(************************* calculator.py ***********************************)
RoundHalfEven_HalfUp(num, den) == (2 * num + den) \div (2 * den)

\* Series.round(): to the nearest integer, exact halves to the even neighbour.
\* The quotient num/den is share * target_sample_size; for every input inside
\* the bounds of this model the double-precision product rounds like the exact one.
RoundHalfEven(num, den) ==
    LET q == num \div den
        r == num % den
    IN  IF 2 * r < den THEN q
        ELSE IF 2 * r > den THEN q + 1
        ELSE IF q % 2 = 0 THEN q ELSE q + 1

\* (share * target_sample_size).round().astype(int), per row
RawSizes(data, tgt) ==
    [i \in 1..Len(data) |-> RoundHalfEven(data[i] * tgt, SumSeq(data))]

AdjustFirst_NoAdjust(sizes, diff) == sizes

AdjustFirst_Last(sizes, diff) ==
    IF diff # 0 /\ Len(sizes) > 0
    THEN [sizes EXCEPT ![Len(sizes)] = @ + diff]
    ELSE sizes

\* if diff != 0 and len(...) > 0: .loc[index[0], "sample_size"] += diff
AdjustFirst(sizes, diff) ==
    IF diff # 0 /\ Len(sizes) > 0
    THEN [sizes EXCEPT ![1] = @ + diff]
    ELSE sizes

PlanRows(data, sizes) ==
    [i \in 1..Len(data) |->
        [grp |-> GroupValue(i), total |-> data[i], sample_size |-> sizes[i]]]

CalcSampleSize_ZeroTotalGivesZeros(data, tgt) ==
    IF Len(data) > 0 /\ SumSeq(data) = 0
    THEN [kind |-> "plan",
          rows |-> PlanRows(data, AdjustFirst([i \in 1..Len(data) |-> 0], tgt))]
    ELSE LET raw == RawSizes(data, tgt)
         IN  [kind |-> "plan",
              rows |-> PlanRows(data, AdjustFirst(raw, tgt - SumSeq(raw)))]

\* calc_sample_size.  With rows and a zero grand total every share is 0/0 = NaN
\* and astype(int) raises; with no rows every column is empty and nothing raises.
CalcSampleSize(data, tgt) ==
    IF Len(data) > 0 /\ SumSeq(data) = 0
    THEN [kind |-> "error", rows |-> <<>>]
    ELSE LET raw == RawSizes(data, tgt)
         IN  [kind |-> "plan",
              rows |-> PlanRows(data, AdjustFirst(raw, tgt - SumSeq(raw)))]

\* the columns of the count table: the grouping column and "total"
InputColumns == {"grp", "total"}

InputAfterCall_InPlace(cols) == cols \cup {"share", "sample_size"}

\* data_with_sample_size = data.copy(): every assignment after it goes to the
\* copy, so the table passed in keeps its columns (and its rows).
InputAfterCall(cols) == cols

Sizes(p) == [i \in 1..Len(p) |-> p[i].sample_size]

(*************************** fetcher.py ************************************)
\* multiplier: int = 2
Multiplier == 2

\* A CSV body of r rows; col is what the remote put in the stratum column: the
\* value in the remote's spelling, or nothing (the response has no such column).
CsvTable(r, col) == [k \in 1..r |-> [key |-> k, grp |-> col]]

\* What the remote can do with one request for stratum g: the transport fails or
\* times out, the remote never answers, or it answers with a status (2xx, or one raise_for_status rejects)
\* and a body (empty, not parseable as CSV, or a CSV table).
Responses(g, maxRows) ==
    {[net |-> e, status |-> "none", body |-> "none", rows |-> <<>>] :
        e \in {"transport_error", "timeout", "no_answer"}}
    \cup
    {[net |-> "answered", status |-> st, body |-> b, rows |-> <<>>] :
        st \in {"2xx", "error"}, b \in {"empty", "malformed"}}
    \cup
    {[net |-> "answered", status |-> st, body |-> "csv", rows |-> CsvTable(r, col)] :
        st \in {"2xx", "error"}, r \in 0..maxRows, col \in {RemoteSpelling(g), NoValue}}

\* requests.get(url, params=params): no timeout argument
SamplerTimeout == FALSE

\* requests.get(BASE_URL, params = params, timeout=MAX_TIMEOUT)
MonthTimeout == TRUE

\* requests.get never returns: the remote never answers and no timeout is set.
\* With a timeout the same remote makes requests.get raise a Timeout.
RequestBlocks(resp, has_timeout) == resp.net = "no_answer" /\ ~has_timeout

RequestRaises_NoStatusCheck(resp) ==
    \/ resp.net # "answered"
    \/ resp.body # "csv"

\* try: requests.get(...); resp.raise_for_status(); pd.read_csv(StringIO(resp.text))
\* TRUE when one of the three raises (read_csv raises on an empty or malformed body).
RequestRaises(resp) ==
    \/ resp.net # "answered"
    \/ resp.status # "2xx"
    \/ resp.body # "csv"

\* df.sample(n=n): n rows at pairwise distinct positions, in any order.
Samples(rows, n) ==
    {[k \in 1..n |-> rows[f[k]]] :
        f \in {g \in [1..n -> 1..Len(rows)] :
                 \A a, b \in 1..n : a # b => g[a] # g[b]}}

FetchRandomSample_NoLocalSample(resp, sample_size) ==
    IF RequestBlocks(resp, SamplerTimeout)
    THEN {[kind |-> "hang", rows |-> <<>>]}
    ELSE
    IF RequestRaises(resp)
    THEN {[kind |-> "none", rows |-> <<>>]}
    ELSE {[kind |-> "df", rows |-> resp.rows]}

FetchRandomSample_NoneWhenEmpty(resp, sample_size) ==
    IF RequestBlocks(resp, SamplerTimeout)
    THEN {[kind |-> "hang", rows |-> <<>>]}
    ELSE
    IF RequestRaises(resp) \/ resp.rows = <<>>
    THEN {[kind |-> "none", rows |-> <<>>]}
    ELSE IF Len(resp.rows) > sample_size
         THEN IF sample_size < 0
              THEN {[kind |-> "raise", rows |-> <<>>]}
              ELSE {[kind |-> "df", rows |-> s] : s \in Samples(resp.rows, sample_size)}
         ELSE {[kind |-> "df", rows |-> resp.rows]}

\* fetch_random_sample: the set of things the call can do for a response.
\*   "none"  return None (the except clause)
\*   "df"    return a table
\*   "raise" df.sample raises ValueError on a negative n, outside the try
\*   "hang"  requests.get never returns
FetchRandomSample(resp, sample_size) ==
    IF RequestBlocks(resp, SamplerTimeout)
    THEN {[kind |-> "hang", rows |-> <<>>]}
    ELSE
    IF RequestRaises(resp)
    THEN {[kind |-> "none", rows |-> <<>>]}
    ELSE IF Len(resp.rows) > sample_size
         THEN IF sample_size < 0
              THEN {[kind |-> "raise", rows |-> <<>>]}
              ELSE {[kind |-> "df", rows |-> s] : s \in Samples(resp.rows, sample_size)}
         ELSE {[kind |-> "df", rows |-> resp.rows]}

SetColumn_Keep(rows, g) == rows

\* df_sample[group_by] = group_value
SetColumn(rows, g) == [k \in 1..Len(rows) |-> [rows[k] EXCEPT !.grp = g]]

\* The body of the try block of the loop raises: fetch_random_sample raised, or
\* it returned None and the column assignment on None raises TypeError.
TryBodyRaises(out) == out.kind \in {"none", "raise"}

OnException_Abort(i, g) == [pc |-> "loop", idx |-> Len(plan) + 1, log |-> <<g>>]

OnException_Retry(i, g) == [pc |-> "loop", idx |-> i, log |-> <<g>>]

OnException_NoLog(i, g) == [pc |-> "loop", idx |-> i + 1, log |-> <<>>]

SleepAfterCall_OnlyOnSuccess(raised) == IF raised THEN <<>> ELSE <<"sleep">>

\* time.sleep(sleep_seconds) after the try/except of a loop iteration
SleepAfterCall(raised) == <<"sleep">>

\* except Exception as e: print(...); the loop then sleeps and goes on.
OnException(i, g) == [pc |-> "loop", idx |-> i + 1, log |-> <<g>>]

(********************* fetcher.py: count query *****************************)
\* What the remote can do with the count request; a CSV body is a count table,
\* given by its "total" column.
CountResponses ==
    {[net |-> e, status |-> "none", body |-> "none", rows |-> <<>>] :
        e \in {"transport_error", "timeout", "no_answer"}}
    \cup
    {[net |-> "answered", status |-> st, body |-> b, rows |-> <<>>] :
        st \in {"2xx", "error"}, b \in {"empty", "malformed"}}
    \cup
    {[net |-> "answered", status |-> st, body |-> "csv", rows |-> t] :
        st \in {"2xx", "error"}, t \in Tables(CountStrata, 0..CountTotal)}

\* requests.get(url, params=params): no timeout argument
CountTimeout == FALSE

\* try: resp = requests.get(...); df_counts = pd.read_csv(StringIO(resp.text))
\* TRUE when one of the two raises; the status of the response is not looked at.
CountRequestRaises(resp) ==
    \/ resp.net # "answered"
    \/ resp.body # "csv"

\* fetch_count_of_grouping: what the call does for a response.
\*   "hang"  requests.get never returns
\*   "none"  return None (the except clause)
\*   "df"    return the parsed count table
FetchCountOfGrouping(resp) ==
    IF RequestBlocks(resp, CountTimeout)
    THEN [kind |-> "hang", rows |-> <<>>]
    ELSE IF CountRequestRaises(resp)
         THEN [kind |-> "none", rows |-> <<>>]
         ELSE [kind |-> "df", rows |-> resp.rows]

(********************* fetcher.py: day-stratified path *********************)
DateRange_Closed(s, e) == [i \in 1..(IF e >= s THEN e - s + 1 ELSE 0) |-> s + i - 1]

\* pd.date_range(pd.to_datetime(start), pd.to_datetime(end), inclusive="left"):
\* the days s, s+1, ... before e; empty when e <= s.
DateRange(s, e) == [i \in 1..(IF e > s THEN e - s ELSE 0) |-> s + i - 1]

\* calc_k_days: the set of things the call can do.
\*   "days"  return the sampled dates as a list
\*   "raise" Series.sample raises ValueError on a negative n
CalcKDays(s, e, k) ==
    LET rng == DateRange(s, e)
        k_days_min == Min(k, Len(rng))
    IN  IF k_days_min < 0
        THEN {[kind |-> "raise", days |-> <<>>]}
        ELSE {[kind |-> "days", days |-> d] : d \in Samples(rng, k_days_min)}

\* per_day_mult: float = 1.4, as the fraction PerDayMultNum / PerDayMultDen
PerDayMultNum == 14
PerDayMultDen == 10

PerDay_Rounded(tgt, n) ==
    (2 * tgt * PerDayMultNum + PerDayMultDen * n) \div (2 * PerDayMultDen * n)

\* int((target * per_day_mult) // len(days)); the caller has len(days) > 0
PerDay(tgt, n) == (tgt * PerDayMultNum) \div (PerDayMultDen * n)

\* the CSV bodies a per-day request can get: up to DayRows rows drawn from RowKeys
DayTables(col) ==
    UNION {{[k \in 1..r |-> [key |-> f[k], grp |-> col]] : f \in [1..r -> RowKeys]} :
             r \in 0..DayRows}

\* What the remote can do with one per-day request for stratum g.
DayResponses(g) ==
    {[net |-> e, status |-> "none", body |-> "none", rows |-> <<>>] :
        e \in {"transport_error", "timeout", "no_answer"}}
    \cup
    {[net |-> "answered", status |-> st, body |-> b, rows |-> <<>>] :
        st \in {"2xx", "error"}, b \in {"empty", "malformed"}}
    \cup
    {[net |-> "answered", status |-> "2xx", body |-> "csv", rows |-> t] :
        t \in DayTables(g) \cup DayTables(NoValue)}

\* the instant 00:00:00 of day d
Midnight(d) == d * TicksPerDay

\* d0 = f"{d}T00:00:00"; d1 = (pd.to_datetime(d) + pd.Timedelta(days=1)) at 00:00:00
DayWindow(d) == [d0 |-> Midnight(d), d1 |-> Midnight(d + 1)]

\* created_date between '{d0}' and '{d1}': the SoQL between operator selects the
\* values from d0 to d1, both ends included.
Between(t, d0, d1) == d0 <= t /\ t <= d1

\* The try block of one day: what the request and the parse give.
\*   "hang"  requests.get never returns
\*   "none"  requests.get, raise_for_status or read_csv raised
\*   "df"    the parsed table df_part
FetchDayPart(resp) ==
    IF RequestBlocks(resp, MonthTimeout)
    THEN [kind |-> "hang", rows |-> <<>>]
    ELSE IF RequestRaises(resp)
         THEN [kind |-> "none", rows |-> <<>>]
         ELSE [kind |-> "df", rows |-> resp.rows]

AccumulatePart_Always(ps, rows) == Append(ps, rows)

\* if not df_part.empty: parts.append(df_part)
AccumulatePart(ps, rows) == IF rows = <<>> THEN ps ELSE Append(ps, rows)

DayOnException_Abort(i) == Len(days) + 1

\* except Exception as e: logging.error(...); the loop goes on with the next day
DayOnException(i) == i + 1

DaySleep_OnlyOnSuccess(raised) == IF raised THEN <<>> ELSE <<"sleep">>

\* time.sleep(sleep_seconds) after the try/except of a day
DaySleep(raised) == <<"sleep">>

DropDuplicates_None(rows) == rows

\* DataFrame.drop_duplicates(): the first occurrence of every row, in order
RECURSIVE DropDuplicates(_)
DropDuplicates(rows) ==
    IF rows = <<>> THEN <<>>
    ELSE LET init == DropDuplicates(SubSeq(rows, 1, Len(rows) - 1))
             last == rows[Len(rows)]
         IN  IF \E j \in 1..Len(init) : init[j] = last
             THEN init
             ELSE Append(init, last)

(***************************** utils.py ************************************)
\* Day number 0 is the first day of this month; the years of the model lie in
\* 1901..2099, where the leap years are the multiples of 4.
CalendarStart == [year |-> 2023, month |-> 12]

\* number of days of the mi-th month after CalendarStart
MonthLength(mi) ==
    LET m == ((CalendarStart.month - 1 + mi) % 12) + 1
        y == CalendarStart.year + ((CalendarStart.month - 1 + mi) \div 12)
    IN  IF m = 2 THEN (IF y % 4 = 0 THEN 29 ELSE 28)
        ELSE IF m \in {4, 6, 9, 11} THEN 30 ELSE 31

\* day number of the first day of the mi-th month
RECURSIVE FirstDay(_)
FirstDay(mi) == IF mi = 0 THEN 0 ELSE FirstDay(mi - 1) + MonthLength(mi - 1)

RECURSIVE MonthFrom(_, _)
MonthFrom(d, mi) == IF d < FirstDay(mi + 1) THEN mi ELSE MonthFrom(d, mi + 1)

\* the month the day d lies in
MonthOf(d) == MonthFrom(d, 0)

\* datetime.fromisoformat of a year-month-day string: that day at 00:00:00
FromIso(d) == Midnight(d)

\* strftime("%Y-%m-%dT%H:%M:%S"): the date and the time of day of the instant
Format(t) == [date |-> t \div TicksPerDay, time |-> t % TicksPerDay]

\* the instant a formatted string denotes
InstantOf(str) == Midnight(str.date) + str.time

\* datetime.replace(day=k): day k of the same month, same time of day
ReplaceDay(t, k) ==
    Midnight(FirstDay(MonthOf(t \div TicksPerDay)) + k - 1) + (t % TicksPerDay)

\* (cur.replace(day=28) + timedelta(days=4)).replace(day=1)
NextMonthStart(t) == ReplaceDay(ReplaceDay(t, 28) + Midnight(4), 1)

Max(a, b) == IF a > b THEN a ELSE b

MonthWindow_Unclipped(c, nxt, s, e) == <<Format(c), Format(nxt)>>

\* m_start = max(cur, start); m_end = min(nxt, end); the pair of formatted strings
MonthWindow(c, nxt, s, e) == <<Format(Max(c, s)), Format(Min(nxt, e))>>

(***************************** actions *************************************)
Blank ==
    /\ plan = <<>>
    /\ idx = 0
    /\ all_samples = <<>>
    /\ calls = <<>>
    /\ lastResp = [net |-> "none", status |-> "none", body |-> "none", rows |-> <<>>]
    /\ log = <<>>
    /\ sleeps = 0
    /\ result = <<>>
    /\ events = <<>>
    /\ columns = InputColumns

BlankDays ==
    /\ start = 0
    /\ end = 0
    /\ k_days = 0
    /\ days = <<>>
    /\ per_day = 0
    /\ parts = <<>>
    /\ warned = FALSE

BlankWindow ==
    /\ created = 0
    /\ windows = <<>>

BlankRanges ==
    /\ cur = 0
    /\ ranges = <<>>

InitAlloc ==
    /\ counts \in Tables(MaxStrata, (0..MaxTotal) \cup ExampleTotals)
    /\ target \in (1..MaxTarget) \cup ExampleTargets
    /\ pc = "start"
    /\ target_n = 0
    /\ Blank
    /\ BlankDays
    /\ BlankWindow
    /\ BlankRanges

Init ==
    /\ counts \in Tables(ExecStrata, 0..ExecTotal)
    /\ target \in 1..ExecTarget
    /\ pc = "start"
    /\ target_n = 0
    /\ Blank
    /\ BlankDays
    /\ BlankWindow
    /\ BlankRanges

\* df_plan = calc_sample_size(data, target_sample_size)
Allocate ==
    /\ pc = "start"
    /\ LET r == CalcSampleSize(counts, target)
       IN  IF r.kind = "error"
           THEN pc' = "alloc_error" /\ plan' = plan
           ELSE pc' = "planned" /\ plan' = r.rows
    /\ columns' = InputAfterCall(columns)
    /\ UNCHANGED <<counts, target, idx, all_samples, calls, lastResp, log, sleeps, target_n, result,
                   events, dayVars, winVars, rangeVars>>

\* fetch_all_samples_from_plan is entered: all_samples = []
StartExecute ==
    /\ pc = "planned"
    /\ pc' = "loop"
    /\ idx' = 1
    /\ all_samples' = <<>>
    /\ UNCHANGED <<counts, target, plan, calls, lastResp, log, sleeps, target_n, result,
                   events, dayVars, winVars, rangeVars, columns>>

\* one iteration of: for _, row in df_plan.iterrows()
ExecuteEntry ==
    /\ pc = "loop"
    /\ idx <= Len(plan)
    /\ LET g == plan[idx].grp
           n == plan[idx].sample_size
       IN  \E resp \in Responses(g, MaxRows) :
           \E out \in FetchRandomSample(resp, n) :
              /\ lastResp' = resp
              /\ calls' = Append(calls, [grp |-> g, n |-> n, limit |-> n * Multiplier, out |-> out])
              /\ IF out.kind = "hang"
                 THEN /\ pc' = "blocked"
                      /\ events' = Append(events, "request")
                      /\ UNCHANGED <<idx, log, all_samples, sleeps>>
                 ELSE IF TryBodyRaises(out)
                 THEN LET h == OnException(idx, g)
                          sl == IF h.pc = "loop" THEN SleepAfterCall(TRUE) ELSE <<>>
                      IN  /\ pc' = h.pc
                          /\ idx' = h.idx
                          /\ log' = log \o h.log
                          /\ all_samples' = all_samples
                          /\ sleeps' = sleeps + Len(sl)
                          /\ events' = Append(events, "request") \o sl
                 ELSE /\ all_samples' = Append(all_samples, SetColumn(out.rows, g))
                      /\ idx' = idx + 1
                      /\ sleeps' = sleeps + Len(SleepAfterCall(FALSE))
                      /\ events' = Append(events, "request") \o SleepAfterCall(FALSE)
                      /\ UNCHANGED <<pc, log>>
    /\ UNCHANGED <<counts, target, plan, target_n, result, dayVars, winVars, rangeVars, columns>>

Finish_NoGuard ==
    /\ pc = "loop"
    /\ idx > Len(plan)
    /\ IF all_samples = <<>>
       THEN pc' = "raised" /\ result' = result
       ELSE pc' = "done" /\ result' = Concat(all_samples)
    /\ UNCHANGED <<counts, target, plan, idx, all_samples, calls, lastResp, log, sleeps, target_n,
                   events, dayVars, winVars, rangeVars, columns>>

\* after the loop: if not all_samples: return pd.DataFrame(); return pd.concat(all_samples)
Finish ==
    /\ pc = "loop"
    /\ idx > Len(plan)
    /\ pc' = "done"
    /\ result' = IF all_samples = <<>> THEN <<>> ELSE Concat(all_samples)
    /\ UNCHANGED <<counts, target, plan, idx, all_samples, calls, lastResp, log, sleeps, target_n,
                   events, dayVars, winVars, rangeVars, columns>>

\* a direct call fetch_random_sample(..., group_value, ..., sample_size)
Sample ==
    /\ pc = "call"
    /\ LET g == GroupValue(1)
       IN  \E resp \in Responses(g, SamplerRows) :
           \E out \in FetchRandomSample(resp, target_n) :
              /\ lastResp' = resp
              /\ calls' = <<[grp |-> g, n |-> target_n,
                             limit |-> target_n * Multiplier, out |-> out]>>
              /\ pc' = IF out.kind = "raise" THEN "raised"
                       ELSE IF out.kind = "hang" THEN "blocked" ELSE "returned"
    /\ events' = Append(events, "request")
    /\ UNCHANGED <<counts, target, plan, idx, all_samples, log, sleeps, target_n, result, dayVars,
                   winVars, rangeVars, columns>>

InitSampler ==
    /\ counts = <<>>
    /\ target = 0
    /\ pc = "call"
    /\ Blank
    /\ BlankDays
    /\ BlankWindow
    /\ BlankRanges
    /\ target_n \in (-1)..SamplerN

NextSampler == Sample

SpecSampler == InitSampler /\ [][NextSampler]_vars

NextAlloc == Allocate

SpecAlloc == InitAlloc /\ [][NextAlloc]_vars

Next == Allocate \/ StartExecute \/ ExecuteEntry \/ Finish

\* a call calc_k_days(start, end, k_days)
ChooseDays ==
    /\ pc = "choose"
    /\ \E r \in CalcKDays(start, end, k_days) :
          IF r.kind = "raise"
          THEN pc' = "raised" /\ days' = days
          ELSE pc' = "chosen" /\ days' = r.days
    /\ UNCHANGED <<planVars, winVars, rangeVars, target, idx, calls, lastResp, log, sleeps, result, events,
                   start, end, k_days, per_day, parts, warned>>

InitDays ==
    /\ start \in 1..MaxDate
    /\ end \in 1..MaxDate
    /\ k_days \in (-1)..MaxK
    /\ days = <<>>
    /\ per_day = 0
    /\ parts = <<>>
    /\ warned = FALSE
    /\ pc = "choose"
    /\ counts = <<>>
    /\ target = 0
    /\ target_n = 0
    /\ Blank
    /\ BlankWindow
    /\ BlankRanges

NextDays == ChooseDays

SpecDays == InitDays /\ [][NextDays]_vars

MonthStart_EmptyPlanGoesOn ==
    /\ pc = "month_start"
    /\ \E r \in CalcKDays(start, end, k_days) :
          IF r.kind = "raise"
          THEN /\ pc' = "raised"
               /\ days' = r.days
               /\ UNCHANGED <<per_day, parts, idx>>
          ELSE /\ pc' = "day_loop"
               /\ days' = r.days
               /\ per_day' = IF Len(r.days) = 0 THEN 0 ELSE PerDay(target, Len(r.days))
               /\ parts' = <<>>
               /\ idx' = 1
    /\ UNCHANGED <<planVars, winVars, rangeVars, target, calls, lastResp, log, sleeps, result,
                   events, start, end, k_days, warned>>

\* fetch_month_strat_data up to the loop: days, per_day, parts = []
MonthStart ==
    /\ pc = "month_start"
    /\ \E r \in CalcKDays(start, end, k_days) :
          IF r.kind = "raise" \/ Len(r.days) = 0
          THEN /\ pc' = "raised"
               /\ days' = r.days
               /\ UNCHANGED <<per_day, parts, idx>>
          ELSE /\ pc' = "day_loop"
               /\ days' = r.days
               /\ per_day' = PerDay(target, Len(r.days))
               /\ parts' = <<>>
               /\ idx' = 1
    /\ UNCHANGED <<planVars, winVars, rangeVars, target, calls, lastResp, log, sleeps, result, events,
                   start, end, k_days, warned>>

\* one iteration of: for d in days
FetchDay ==
    /\ pc = "day_loop"
    /\ idx <= Len(days)
    /\ \E resp \in DayResponses(GroupValue(1)) :
          LET out == FetchDayPart(resp)
          IN  /\ lastResp' = resp
              /\ calls' = Append(calls, [grp |-> GroupValue(1), n |-> per_day, limit |-> per_day,
                                         out |-> out, day |-> days[idx]])
              /\ IF out.kind = "hang"
                 THEN /\ pc' = "blocked"
                      /\ events' = Append(events, "request")
                      /\ UNCHANGED <<idx, log, parts, sleeps>>
                 ELSE IF out.kind = "none"
                 THEN /\ log' = Append(log, days[idx])
                      /\ idx' = DayOnException(idx)
                      /\ sleeps' = sleeps + Len(DaySleep(TRUE))
                      /\ events' = Append(events, "request") \o DaySleep(TRUE)
                      /\ UNCHANGED <<pc, parts>>
                 ELSE /\ parts' = AccumulatePart(parts, out.rows)
                      /\ idx' = idx + 1
                      /\ sleeps' = sleeps + Len(DaySleep(FALSE))
                      /\ events' = Append(events, "request") \o DaySleep(FALSE)
                      /\ UNCHANGED <<pc, log>>
    /\ UNCHANGED <<planVars, winVars, rangeVars, target, result, start, end, k_days, days, per_day, warned>>

\* after the loop: if not parts: logging.warning(...); return pd.DataFrame()
\* else: return pd.concat(parts, ignore_index=True).drop_duplicates()
MonthFinish ==
    /\ pc = "day_loop"
    /\ idx > Len(days)
    /\ pc' = "done"
    /\ IF parts = <<>>
       THEN warned' = TRUE /\ result' = <<>>
       ELSE warned' = warned /\ result' = DropDuplicates(Concat(parts))
    /\ UNCHANGED <<planVars, winVars, rangeVars, target, idx, calls, lastResp, log, sleeps, events,
                   start, end, k_days, days, per_day, parts>>

InitMonth ==
    /\ start \in 0..MonthMaxDate
    /\ end \in 0..MonthMaxDate
    /\ k_days \in (-1)..MonthMaxK
    /\ target \in 1..MonthTarget
    /\ days = <<>>
    /\ per_day = 0
    /\ parts = <<>>
    /\ warned = FALSE
    /\ pc = "month_start"
    /\ counts = <<>>
    /\ target_n = 0
    /\ Blank
    /\ BlankWindow
    /\ BlankRanges

NextMonth == MonthStart \/ FetchDay \/ MonthFinish

SpecMonth == InitMonth /\ [][NextMonth]_vars

\* the date predicate of one per-day request of fetch_month_strat_data, for a
\* day not requested before (calc_k_days returns distinct days)
QueryDay ==
    /\ pc = "window"
    /\ Len(windows) < WindowMaxQueries
    /\ \E d \in 0..WindowMaxDate :
          /\ \A k \in 1..Len(windows) : windows[k].day # d
          /\ LET w == DayWindow(d)
             IN  windows' = Append(windows, [day |-> d, d0 |-> w.d0, d1 |-> w.d1,
                                             selected |-> Between(created, w.d0, w.d1)])
    /\ UNCHANGED <<counts, target, pc, plan, idx, all_samples, calls, lastResp, log, sleeps,
                   target_n, result, events, columns, dayVars, created,
                   rangeVars>>

InitWindow ==
    /\ created \in 0..Midnight(WindowMaxDate + 1)
    /\ windows = <<>>
    /\ pc = "window"
    /\ counts = <<>>
    /\ target = 0
    /\ target_n = 0
    /\ Blank
    /\ BlankDays
    /\ BlankRanges

NextWindow == QueryDay

SpecWindow == InitWindow /\ [][NextWindow]_vars

\* a call fetch_count_of_grouping(url, group_by, time_start, time_end)
CountQuery ==
    /\ pc = "count"
    /\ \E resp \in CountResponses :
          LET out == FetchCountOfGrouping(resp)
          IN  /\ lastResp' = resp
              /\ calls' = <<[out |-> out]>>
              /\ pc' = IF out.kind = "hang" THEN "blocked" ELSE "returned"
    /\ events' = Append(events, "request")
    /\ UNCHANGED <<planVars, winVars, rangeVars, target, idx, log, sleeps, result, dayVars>>

InitCount ==
    /\ counts = <<>>
    /\ target = 0
    /\ target_n = 0
    /\ pc = "count"
    /\ Blank
    /\ BlankDays
    /\ BlankWindow
    /\ BlankRanges

NextCount == CountQuery

SpecCount == InitCount /\ [][NextCount]_vars

\* month_ranges up to the loop: start, end, cur = start.replace(day=1), ranges = []
RangesStart ==
    /\ pc = "ranges_start"
    /\ cur' = ReplaceDay(FromIso(start), 1)
    /\ ranges' = <<>>
    /\ pc' = "ranges_loop"
    /\ UNCHANGED <<counts, target, plan, idx, all_samples, calls, lastResp, log, sleeps,
                   target_n, result, events, columns, dayVars, winVars>>

\* one iteration of: while cur < end
RangesStep ==
    /\ pc = "ranges_loop"
    /\ cur < FromIso(end)
    /\ LET nxt == NextMonthStart(cur)
       IN  /\ ranges' = Append(ranges, MonthWindow(cur, nxt, FromIso(start), FromIso(end)))
           /\ cur' = nxt
    /\ UNCHANGED <<counts, target, pc, plan, idx, all_samples, calls, lastResp, log, sleeps,
                   target_n, result, events, columns, dayVars, winVars>>

\* the loop condition fails: return ranges
RangesReturn ==
    /\ pc = "ranges_loop"
    /\ ~(cur < FromIso(end))
    /\ pc' = "returned"
    /\ UNCHANGED <<counts, target, plan, idx, all_samples, calls, lastResp, log, sleeps,
                   target_n, result, events, columns, dayVars, winVars, rangeVars>>

InitRanges ==
    /\ start \in 0..RangeMaxDay
    /\ end \in 0..RangeMaxDay
    /\ k_days = 0
    /\ days = <<>>
    /\ per_day = 0
    /\ parts = <<>>
    /\ warned = FALSE
    /\ pc = "ranges_start"
    /\ counts = <<>>
    /\ target = 0
    /\ target_n = 0
    /\ Blank
    /\ BlankWindow
    /\ BlankRanges

NextRanges == RangesStart \/ RangesStep \/ RangesReturn

SpecRanges == InitRanges /\ [][NextRanges]_vars

\* both executors: a run of the plan executor or a run of the day-stratified one
InitPacing == Init \/ InitMonth

NextPacing == Next \/ NextMonth

SpecPacing == InitPacing /\ [][NextPacing]_vars

\* the planner called with a target <= 0, or the day chooser called
InitNonPositiveTarget ==
    /\ counts \in Tables(ExecStrata, 0..ExecTotal)
    /\ target \in (-ExecTarget)..0
    /\ pc = "start"
    /\ target_n = 0
    /\ Blank
    /\ BlankDays
    /\ BlankWindow
    /\ BlankRanges

InitInputs == InitNonPositiveTarget \/ InitDays

NextInputs == Allocate \/ ChooseDays

SpecInputs == InitInputs /\ [][NextInputs]_vars

Spec == Init /\ [][Next]_vars

(********************* claims on calc_sample_size **************************)
Allocated == pc = "planned"

\* C1: for counts with grand total > 0 and target > 0 the sample_size values of
\* the returned plan sum exactly to the target.
C1_SumEqualsTarget ==
    (Allocated /\ SumSeq(counts) > 0 /\ target > 0)
        => SumSeq(Sizes(plan)) = target

\* C1 witness: a plan whose rounded sizes alone do not sum to the target.
C1_Witness ==
    /\ Allocated
    /\ SumSeq(counts) > 0
    /\ SumSeq(RawSizes(counts, target)) # target
    /\ SumSeq(Sizes(plan)) = target

\* C2: every stratum but the first gets round(total / grand_total * target), the
\* first gets its rounded size plus diff = target - sum(rounded sizes); totals
\* [1,1,1] with target 10 give [4,3,3], totals [10,20,30] with target 6 give [1,2,3].
C2_FirstAbsorbsDiff ==
    /\ (Allocated /\ Len(counts) > 0) =>
         LET G == SumSeq(counts)
             rounded(i) == RoundHalfEven(counts[i] * target, G)
             diff == target - SumSeq([i \in 1..Len(counts) |-> rounded(i)])
         IN  /\ Len(plan) = Len(counts)
             /\ \A i \in 2..Len(plan) : plan[i].sample_size = rounded(i)
             /\ plan[1].sample_size = rounded(1) + diff
    /\ (pc # "start" /\ counts = <<1, 1, 1>> /\ target = 10)
         => (Allocated /\ Sizes(plan) = <<4, 3, 3>>)
    /\ (pc # "start" /\ counts = <<10, 20, 30>> /\ target = 6)
         => (Allocated /\ Sizes(plan) = <<1, 2, 3>>)

\* C2 witness: the first worked example, where the first stratum absorbs diff = 1.
C2_Witness ==
    /\ Allocated
    /\ counts = <<1, 1, 1>>
    /\ target = 10
    /\ Sizes(plan) = <<4, 3, 3>>

\* C3: every entry of every plan returned for counts with grand total > 0 and
\* target > 0 has sample_size >= 0.
C3_SizesNonNegative ==
    (Allocated /\ SumSeq(counts) > 0 /\ target > 0)
        => \A i \in 1..Len(plan) : plan[i].sample_size >= 0

\* The same statement restricted to count tables in which every total is > 0
\* (what a grouped count query returns): violated too.
C3_SizesNonNegativePositiveTotals ==
    (Allocated /\ target > 0 /\ \A i \in 1..Len(counts) : counts[i] > 0)
        => \A i \in 1..Len(plan) : plan[i].sample_size >= 0

Abs(x) == IF x < 0 THEN -x ELSE x

\* C28: the raw size of a stratum is share * target rounded to the nearest
\* integer, exact halves going to the even neighbour (not truncated, not half-up):
\* totals [1,1] with target 1 give raw sizes [0,0] and plan [1,0]; totals [1,1] with
\* target 3 give raw sizes [2,2] and plan [1,2].
C28_RawSizeRoundsHalfToEven ==
    /\ (Allocated /\ SumSeq(counts) > 0) =>
         LET G == SumSeq(counts)
             raw == RawSizes(counts, target)
         IN  /\ \A i \in 1..Len(counts) :
                   /\ 2 * Abs(raw[i] * G - counts[i] * target) <= G
                   /\ 2 * Abs(raw[i] * G - counts[i] * target) = G => raw[i] % 2 = 0
             /\ \A i \in 2..Len(plan) : plan[i].sample_size = raw[i]
             /\ plan[1].sample_size = raw[1] + (target - SumSeq(raw))
    /\ (pc # "start" /\ counts = <<1, 1>> /\ target = 1)
         => (Allocated /\ RawSizes(counts, target) = <<0, 0>> /\ Sizes(plan) = <<1, 0>>)
    /\ (pc # "start" /\ counts = <<1, 1>> /\ target = 3)
         => (Allocated /\ RawSizes(counts, target) = <<2, 2>> /\ Sizes(plan) = <<1, 2>>)

\* C28 witness: the second worked example, 1.5 rounded to 2 in both strata.
C28_Witness ==
    /\ Allocated
    /\ counts = <<1, 1>>
    /\ target = 3
    /\ Sizes(plan) = <<1, 2>>

(******************** claims on fetch_random_sample ************************)
LastCall == calls[Len(calls)]

Returned == pc = "returned"

RequestFailed(resp) ==
    \/ resp.net \in {"transport_error", "timeout"}
    \/ resp.net = "answered" /\ resp.status # "2xx"

\* C5: for target_n > 0 and a successful response of r rows the call returns
\* exactly min(r, target_n) rows, each a distinct row of the response.
C5_ReturnsMinRows ==
    (pc # "call" /\ target_n > 0 /\ ~RequestFailed(lastResp) /\ lastResp.body = "csv")
        => /\ Returned
           /\ LastCall.out.kind = "df"
           /\ LET got == LastCall.out.rows
              IN  /\ Len(got) = Min(Len(lastResp.rows), target_n)
                  /\ Len(got) <= target_n
                  /\ \A a, b \in 1..Len(got) : a # b => got[a] # got[b]
                  /\ \A a \in 1..Len(got) :
                        \E k \in 1..Len(lastResp.rows) : got[a] = lastResp.rows[k]

\* C5 witness: a response with more rows than asked for was cut to target_n >= 2 rows.
C5_Witness ==
    /\ Returned
    /\ target_n >= 2
    /\ Len(lastResp.rows) > target_n
    /\ LastCall.out.kind = "df"
    /\ Len(LastCall.out.rows) = target_n

\* C6: on a transport error, a timeout or a non-success status of the request
\* the call returns the failure marker and does not raise.
C6_FailureReturnsMarker ==
    (pc # "call" /\ RequestFailed(lastResp))
        => (Returned /\ LastCall.out.kind = "none")

\* C6 witness: an error status whose body is a CSV table ended as the failure marker.
C6_Witness ==
    /\ Returned
    /\ lastResp.net = "answered"
    /\ lastResp.status = "error"
    /\ lastResp.body = "csv"
    /\ Len(lastResp.rows) > 0
    /\ LastCall.out.kind = "none"

\* C7: the call returns the failure marker only when the request itself failed;
\* a successful response with fewer rows than target_n, zero rows or an empty
\* body included, yields a batch and never a failure.
C7_MarkerOnlyOnRequestFailure ==
    (Returned /\ target_n > 0 /\ LastCall.out.kind = "none") => RequestFailed(lastResp)

\* C7 amended: the failure marker is returned only when the request failed or the
\* body of a successful response does not parse as CSV (an empty body does not);
\* a successful CSV response with fewer rows than target_n, zero rows included,
\* yields all its rows as a batch.
C7_MarkerOnlyOnRequestOrParseFailure ==
    /\ (Returned /\ LastCall.out.kind = "none")
         => (RequestFailed(lastResp) \/ lastResp.body # "csv")
    /\ (pc # "call" /\ ~RequestFailed(lastResp) /\ lastResp.body = "csv"
          /\ Len(lastResp.rows) < target_n)
         => (Returned /\ LastCall.out.kind = "df" /\ LastCall.out.rows = lastResp.rows)
    /\ (pc # "call" /\ ~RequestFailed(lastResp) /\ lastResp.body = "empty")
         => (Returned /\ LastCall.out.kind = "none")

\* C7 witness: a successful response of zero rows gave an empty batch.
C7_Witness ==
    /\ Returned
    /\ target_n > 0
    /\ ~RequestFailed(lastResp)
    /\ lastResp.body = "csv"
    /\ lastResp.rows = <<>>
    /\ LastCall.out.kind = "df"
    /\ LastCall.out.rows = <<>>

(**************** claims on fetch_all_samples_from_plan ********************)
Done == pc = "done"

Failed(k) == calls[k].out.kind # "df"

\* the batches of the calls that succeeded, each row with its call's stratum
RECURSIVE NonFailedBatches(_)
NonFailedBatches(cs) ==
    IF cs = <<>> THEN <<>>
    ELSE LET c == cs[1]
         IN  (IF c.out.kind = "df"
              THEN <<[j \in 1..Len(c.out.rows) |-> [key |-> c.out.rows[j].key, grp |-> c.grp]]>>
              ELSE <<>>)
             \o NonFailedBatches(Tail(cs))

\* C8: every plan entry is attempted exactly once, in plan order; a failure
\* marker or an exception from the call for one entry never prevents the calls
\* for the entries after it.
C8_EveryEntryAttemptedOnce ==
    /\ pc # "raised"
    /\ pc \in {"loop", "done"} =>
         /\ Len(calls) = idx - 1
         /\ \A k \in 1..Len(calls) :
               /\ calls[k].grp = plan[k].grp
               /\ calls[k].n = plan[k].sample_size
    /\ Done => Len(calls) = Len(plan)

\* C8 witness: the first call raised, the second returned the failure marker,
\* and the third entry was still attempted.
C8_Witness ==
    /\ Done
    /\ Len(plan) = 3
    /\ Len(calls) = 3
    /\ calls[1].out.kind = "raise"
    /\ calls[2].out.kind = "none"
    /\ calls[3].out.kind = "df"

\* C9: with some entries failing and others succeeding the executor returns
\* without raising, the result is the concatenation, in plan order, of the
\* batches of the entries that succeeded, every row carrying its entry's
\* stratum, and one log record is produced per failed stratum.
C9_PartialResultIsConcatenation ==
    /\ pc # "raised"
    /\ Done =>
         /\ result = Concat([k \in 1..Len(plan) |->
                        IF Failed(k) THEN <<>>
                        ELSE [j \in 1..Len(calls[k].out.rows) |->
                                [key |-> calls[k].out.rows[j].key, grp |-> plan[k].grp]]])
         /\ log = Concat([k \in 1..Len(plan) |->
                        IF Failed(k) THEN <<plan[k].grp>> ELSE <<>>])
         /\ \A j \in 1..Len(result) :
               \E k \in 1..Len(plan) : ~Failed(k) /\ result[j].grp = plan[k].grp

\* C9 witness: one of three strata failed and rows of the two others were returned.
C9_Witness ==
    /\ Done
    /\ Len(plan) = 3
    /\ ~Failed(1) /\ Failed(2) /\ ~Failed(3)
    /\ calls[1].out.rows # <<>>
    /\ calls[3].out.rows # <<>>
    /\ Len(result) = Len(calls[1].out.rows) + Len(calls[3].out.rows)
    /\ log = <<plan[2].grp>>

\* C10: for every plan, every plan the planner can return included, the number
\* of rows of the assembled sample is at most the sum of the plan's sample_size.
C10_RowsWithinPlannedTotal ==
    Done => Len(result) <= SumSeq(Sizes(plan))

\* The bound holds for the plans without a negative sample_size.
C10_RowsWithinNonNegativePlan ==
    (Done /\ \A k \in 1..Len(plan) : plan[k].sample_size >= 0)
        => Len(result) <= SumSeq(Sizes(plan))

\* C11: if no plan entry's call succeeds (every call fails, or the plan is
\* empty) the executor returns the explicitly-empty table and does not raise.
C11_NoSuccessGivesEmptyTable ==
    (pc \in {"done", "raised"} /\ \A k \in 1..Len(calls) : Failed(k))
        => (Done /\ result = <<>> /\ Len(calls) = Len(plan))

\* C11 witness: both calls of a two-entry plan failed and the empty table was returned.
C11_Witness ==
    /\ Done
    /\ Len(plan) = 2
    /\ Failed(1) /\ Failed(2)
    /\ result = <<>>

\* C13: every run of the executor on valid inputs eventually returns a sample or
\* the explicitly-empty table, whatever the remote does (errors, timeouts,
\* connections that never answer), and never propagates an exception: a run that
\* has not returned can always take its next step.
C13_EveryRunReturns ==
    (pc \in {"loop", "blocked", "raised", "done"}
       /\ \A k \in 1..Len(plan) : plan[k].sample_size > 0)
        => (pc # "raised" /\ (Done \/ ENABLED Next))

\* C14: the request of fetch_random_sample carries a timeout, so a request the
\* remote never answers ends as the failure marker instead of blocking forever.
C14_NoAnswerEndsAsFailure ==
    (pc # "call" /\ target_n > 0 /\ lastResp.net = "no_answer")
        => (Returned /\ LastCall.out.kind = "none")

\* C21: every row of the sample assembled by fetch_all_samples_from_plan carries
\* the stratum column with the value of the plan entry whose call fetched it,
\* also when the response had no such column or spelled the value differently.
C21_RowsCarryEntryStratum ==
    /\ pc \in {"loop", "done"} =>
         /\ \A b \in 1..Len(all_samples) : \A j \in 1..Len(all_samples[b]) :
               all_samples[b][j].grp # NoValue
         /\ all_samples = NonFailedBatches(calls)
    /\ Done =>
         /\ Len(result) = SumSeq([k \in 1..Len(calls) |->
                              IF Failed(k) THEN 0 ELSE Len(calls[k].out.rows)])
         /\ \A j \in 1..Len(result) :
               \E k \in 1..Len(plan) : ~Failed(k) /\ result[j].grp = plan[k].grp

\* C21 witness: one response had no stratum column, another spelled the value
\* differently, and the rows of both carry their entry's stratum.
C21_Witness ==
    /\ Done
    /\ Len(calls) >= 2
    /\ ~Failed(1) /\ ~Failed(2)
    /\ calls[1].out.rows # <<>> /\ calls[1].out.rows[1].grp = NoValue
    /\ calls[2].out.rows # <<>> /\ calls[2].out.rows[1].grp = Respelled(plan[2].grp)
    /\ result[1].grp = plan[1].grp
    /\ result[Len(result)].grp = plan[2].grp
    /\ Len(result) = Len(calls[1].out.rows) + Len(calls[2].out.rows)

(************************* claims on pacing ********************************)
\* C12: in both executors requests are issued one at a time and exactly one
\* pacing sleep follows every remote call, failed or not: the history of events
\* alternates request, sleep, and no request follows a request still outstanding.
C12_OneSleepAfterEveryCall ==
    /\ \A i \in 1..Len(events) :
          events[i] = (IF i % 2 = 1 THEN "request" ELSE "sleep")
    /\ pc \in {"loop", "day_loop", "done"} =>
          (Len(events) = 2 * Len(calls) /\ sleeps = Len(calls))
    /\ pc = "blocked" => Len(events) = 2 * Len(calls) - 1

\* C12 witness: the day-stratified executor made two requests, the first failed,
\* the second succeeded, and a sleep followed each.
C12_Witness ==
    /\ Done
    /\ Len(days) = 2
    /\ Len(calls) = 2
    /\ calls[1].out.kind = "none"
    /\ calls[2].out.kind = "df"
    /\ events = <<"request", "sleep", "request", "sleep">>

Requests == Cardinality({i \in 1..Len(events) : events[i] = "request"})

Chosen == pc = "chosen"

\* C15: for start < end and k_days > 0 the chooser returns exactly
\* min(k_days, number of days in [start, end)) pairwise distinct dates d with
\* start <= d < end; the range 1..10 with k_days = 5 gives 5 dates.
C15_ChoosesDistinctDaysInRange ==
    (pc # "choose" /\ start < end /\ k_days > 0)
        => /\ Chosen
           /\ Len(days) = Min(k_days, end - start)
           /\ \A a, b \in 1..Len(days) : a # b => days[a] # days[b]
           /\ \A a \in 1..Len(days) : start <= days[a] /\ days[a] < end
           /\ (start = 1 /\ end = 10 /\ k_days = 5) => Len(days) = 5

\* C15 witness: the worked example, five distinct days out of the nine of [1, 10).
C15_Witness ==
    /\ Chosen
    /\ start = 1
    /\ end = 10
    /\ k_days = 5
    /\ Len(days) = 5

\* C16: the chooser fails with an error, and returns no day plan, whenever
\* end <= start.
C16_EmptyRangeFails ==
    (pc # "choose" /\ end <= start /\ k_days > 0) => pc = "raised"

\* C17: the planner called with target <= 0 and the chooser called with
\* k_days <= 0 each fail with an error instead of returning a plan or a day list.
C17_NonPositiveInputsFail ==
    /\ (pc \in {"planned", "alloc_error"} /\ target <= 0 /\ SumSeq(counts) > 0)
         => pc = "alloc_error"
    /\ (pc \in {"chosen", "raised"} /\ k_days <= 0 /\ start < end) => pc = "raised"

\* The planner half of C17 alone, on count tables with a positive grand total.
C17_NonPositiveTargetFails ==
    (pc \in {"planned", "alloc_error"} /\ target <= 0 /\ SumSeq(counts) > 0)
        => pc = "alloc_error"

\* The chooser half of C17 alone, on non-empty ranges.
C17_NonPositiveKDaysFails ==
    (pc \in {"chosen", "raised"} /\ k_days <= 0 /\ start < end) => pc = "raised"

(******************* claims on fetch_month_strat_data **********************)
InDayLoop == pc \in {"day_loop", "done"}

Fetched(k) == calls[k].out.kind = "df"

Occurrences(rows, r) == Cardinality({i \in 1..Len(rows) : rows[i] = r})

RECURSIVE NonEmptyBatches(_)
NonEmptyBatches(cs) ==
    IF cs = <<>> THEN <<>>
    ELSE LET c == cs[1]
         IN  (IF c.out.kind = "df" /\ c.out.rows # <<>> THEN <<c.out.rows>> ELSE <<>>)
             \o NonEmptyBatches(Tail(cs))

\* C18: the result never contains two identical rows and contains every distinct
\* row of the successfully fetched day batches exactly once.
C18_ResultHasEachRowOnce ==
    (Done /\ Len(days) > 0) =>
        /\ \A a, b \in 1..Len(result) : a # b => result[a] # result[b]
        /\ \A k \in 1..Len(calls) : Fetched(k) =>
              \A j \in 1..Len(calls[k].out.rows) :
                  Occurrences(result, calls[k].out.rows[j]) = 1
        /\ \A a \in 1..Len(result) :
              \E k \in 1..Len(calls) :
                  Fetched(k) /\ Occurrences(calls[k].out.rows, result[a]) > 0

\* C18 witness: the fetches of two days returned the same row and the result
\* holds it once.
C18_Witness ==
    /\ Done
    /\ Len(calls) = 2
    /\ Fetched(1) /\ Fetched(2)
    /\ calls[1].day # calls[2].day
    /\ \E r \in {calls[1].out.rows[j] : j \in 1..Len(calls[1].out.rows)} :
          /\ Occurrences(calls[2].out.rows, r) > 0
          /\ Occurrences(result, r) = 1

\* C19: the executor processes every chosen day: a failed request or an empty
\* result adds nothing to the accumulator and never prevents the requests for
\* the remaining days; only non-empty successful results are accumulated.
C19_EveryDayProcessed ==
    /\ (calls # <<>> /\ start < end) => InDayLoop
    /\ InDayLoop =>
         /\ Len(calls) = idx - 1
         /\ \A k \in 1..Len(calls) : calls[k].day = days[k]
         /\ parts = NonEmptyBatches(calls)
    /\ (Done /\ Len(days) > 0) => Len(calls) = Len(days)

\* C19 witness: the first day failed, the second was empty, both were requested
\* and nothing was accumulated.
C19_Witness ==
    /\ Done
    /\ Len(days) = 2
    /\ Len(calls) = 2
    /\ calls[1].out.kind = "none"
    /\ Fetched(2) /\ calls[2].out.rows = <<>>
    /\ parts = <<>>

\* C20: if no chosen day produces any row (every day's fetch fails or is empty)
\* the executor returns the explicitly-empty table, records a warning and does
\* not raise.
C20_NoRowsGivesEmptyTableAndWarning ==
    /\ (Len(days) > 0 /\ idx > Len(days) /\ pc \in {"day_loop", "done", "raised"}
          /\ \A k \in 1..Len(calls) : calls[k].out.rows = <<>>)
         => /\ pc # "raised"
            /\ parts = <<>>
            /\ Done => (result = <<>> /\ warned)
    /\ (Done /\ Len(days) > 0 /\ warned) => result = <<>>

\* C20 witness: a failed day and an empty day ended in the empty table and a warning.
C20_Witness ==
    /\ Done
    /\ Len(days) = 2
    /\ calls[1].out.kind = "none"
    /\ Fetched(2) /\ calls[2].out.rows = <<>>
    /\ result = <<>>
    /\ warned

\* C22: every row of the table returned by fetch_month_strat_data has the stratum
\* column, whether or not the remote's responses contained that column.
C22_DayRowsCarryStratum ==
    (Done /\ Len(days) > 0) => \A j \in 1..Len(result) : result[j].grp # NoValue

C30_EmptyDayPlanFails ==
    (pc # "month_start" /\ k_days >= 0 /\ (end <= start \/ k_days = 0))
        => /\ pc = "raised"
           /\ days = <<>>
           /\ calls = <<>>
           /\ events = <<>>
           /\ sleeps = 0
           /\ result = <<>>
           /\ ~warned

\* C30 witness: a non-empty range with k_days = 0 ended in the error, no request made.
C30_Witness ==
    /\ pc = "raised"
    /\ start < end
    /\ k_days = 0
    /\ days = <<>>
    /\ events = <<>>

(********************** claims on the count query **************************)
\* C27: fetch_count_of_grouping treats a non-2xx status like a transport error:
\* in both cases it returns the failure marker, and it never returns a count
\* table parsed from the body of an error response.
C27_CountErrorStatusIsFailure ==
    (pc # "count" /\ RequestFailed(lastResp))
        => (Returned /\ LastCall.out.kind = "none")

\* What holds: a transport error or a timeout gives the failure marker.
C27_CountTransportErrorIsFailure ==
    (pc # "count" /\ lastResp.net \in {"transport_error", "timeout"})
        => (Returned /\ LastCall.out.kind = "none")

(********************* claims on the date predicate ************************)
\* C23: the date predicate sent for a window selects exactly the rows with
\* start <= created_date < end: a row stamped exactly at the window's end is not
\* selected, and the one-day windows of two adjacent days never both select a row.
C23_WindowIsHalfOpen ==
    /\ \A k \in 1..Len(windows) :
          windows[k].selected <=>
              (Midnight(windows[k].day) <= created /\ created < Midnight(windows[k].day + 1))
    /\ \A a, b \in 1..Len(windows) :
          (a # b /\ windows[a].selected) => ~windows[b].selected

\* What the predicate does select: the closed window, both midnights included.
C23_WindowIsClosed ==
    \A k \in 1..Len(windows) :
        windows[k].selected <=>
            (Midnight(windows[k].day) <= created /\ created <= Midnight(windows[k].day + 1))

(*********************** claims on month_ranges ****************************)
\* C29: for every start < end month_ranges returns a non-empty chronological list
\* of windows that tile [start, end): the first starts at start, the last ends at
\* end, each window's end is the next one's start, and every window has
\* start < end and is at most 31 days long.
C29_MonthWindowsTileRange ==
    (Returned /\ start < end) =>
        /\ ranges # <<>>
        /\ InstantOf(ranges[1][1]) = Midnight(start)
        /\ InstantOf(ranges[Len(ranges)][2]) = Midnight(end)
        /\ \A i \in 1..(Len(ranges) - 1) : ranges[i][2] = ranges[i + 1][1]
        /\ \A i \in 1..Len(ranges) :
              /\ InstantOf(ranges[i][1]) < InstantOf(ranges[i][2])
              /\ InstantOf(ranges[i][2]) - InstantOf(ranges[i][1]) <= Midnight(31)

\* C29 witness: a range from inside one month to inside the third one after it,
\* cut into a partial window, a 31-day one, a 29-day one and a partial one.
C29_Witness ==
    /\ Returned
    /\ start > FirstDay(0)
    /\ start < FirstDay(1)
    /\ end > FirstDay(3)
    /\ Len(ranges) = 4
    /\ InstantOf(ranges[2][2]) - InstantOf(ranges[2][1]) = Midnight(31)
    /\ InstantOf(ranges[3][2]) - InstantOf(ranges[3][1]) = Midnight(29)

====
